---- MODULE Spec2Model ----
(***************************************************************************)
(* Model of the two experiment drivers scripts/train_p4581.py and          *)
(* scripts/train_sptmp_cascadia.py: one run of a driver is a straight-line *)
(* script, each statement group is one action and pc is the position in    *)
(* the script.  The preprocessing helpers the drivers import from          *)
(* utils.data_preprocessing are not part of the two files; they are        *)
(* written here as operators after their contracts.                        *)
(*                                                                         *)
(* Conventions.  Arrays are sequences (python index i is position i+1).    *)
(* The series is one channel (the helpers treat channels independently).   *)
(* A smoothed sample is a record [t |-> its 0-based position in            *)
(* df_smoothed, v |-> its value]; v is the moving-window SUM, i.e. the     *)
(* mean with the fixed denominator smoothing_window left implicit.         *)
(***************************************************************************)
EXTENDS Integers, Sequences, FiniteSets, TLC

\* ------------------------------------------------------------------ bounds
MaxN == 6          \* longest raw series of the small grid
MaxSmooth == 2     \* largest smoothing_window of the small grid
MaxDown == 2       \* largest downsampling_factor of the small grid
MaxLookback == 2   \* largest lookback of the small grid
MaxForecast == 2   \* largest forecast of the small grid
MaxTest == 2       \* largest n_forecast_windows of the small grid
MaxValWin == 1     \* largest n_validation_windows of the small grid

VARIABLES script, cli_args, args, raw, pc, df_smoothed, verdict, X, y,
          X_train, y_train, X_val, y_val, X_test, y_test,
          data_dict, scaler_X, scaler_y, model, results_dict,
          tmp_files, cache_cleared, gc_collected, failed_in, log

vars == <<script, cli_args, args, raw, pc, df_smoothed, verdict, X, y,
          X_train, y_train, X_val, y_val, X_test, y_test,
          data_dict, scaler_X, scaler_y, model, results_dict,
          tmp_files, cache_cleared, gc_collected, failed_in, log>>

\* ------------------------------------------------------- pure helpers
\* ceil(a / b) for a >= 0, b >= 1
CeilDiv(a, b) == (a + b - 1) \div b

RECURSIVE WindowSum(_, _, _)
\* sum of the w samples s[lo], ..., s[lo+w-1]
WindowSum(s, lo, w) == IF w = 0 THEN 0 ELSE s[lo] + WindowSum(s, lo + 1, w - 1)

\* CausalSmoother: rolling mean over the w most recent raw samples, the
\* first w-1 positions (fewer than w inputs) dropped, then every d-th
\* smoothed sample kept, starting with the first one.
moving_average_causal_filter(s, w, d) ==
    LET m    == IF Len(s) >= w THEN Len(s) - w + 1 ELSE 0
        kept == CeilDiv(m, d)
    IN  [k \in 1..kept |-> WindowSum(s, (k - 1) * d + 1, w)]

\* WindowGenerator: X[i] = samples [i, i+lookback),
\* y[i] = samples [i+lookback, i+lookback+forecast), 0 <= i <= N-L-F.
\* It rejects a series shorter than lookback + forecast (ok = FALSE: raises).
create_dataset(series, lookback, forecast) ==
    LET T == Len(series) - lookback - forecast + 1
        S(t) == [t |-> t, v |-> series[t + 1]]
    IN  IF Len(series) < lookback + forecast
        THEN [ok |-> FALSE, X |-> <<>>, y |-> <<>>]
        ELSE [ok |-> TRUE,
              X |-> [i \in 1..T |->
                       [j \in 1..lookback |-> S((i - 1) + (j - 1))]],
              y |-> [i \in 1..T |->
                       [j \in 1..forecast |->
                          S((i - 1) + lookback + (j - 1))]]]

\* Splitter: the last n_test windows are test, the n_val windows before
\* them validation, everything before train.  It fails (ok = FALSE) if
\* n_test (+ n_val) exceeds the number of windows.
split_train_test_forecast_windows(Xw, yw, forecast, n_test, n_val) ==
    LET T == Len(Xw)
        a == T - n_test - n_val
        b == T - n_test
    IN  IF n_test + n_val > T
        THEN [ok |-> FALSE,
              X_train |-> <<>>, y_train |-> <<>>, X_val |-> <<>>,
              y_val |-> <<>>, X_test |-> <<>>, y_test |-> <<>>]
        ELSE [ok |-> TRUE,
              X_train |-> SubSeq(Xw, 1, a),
              y_train |-> SubSeq(yw, 1, a),
              X_val   |-> SubSeq(Xw, a + 1, b),
              y_val   |-> SubSeq(yw, a + 1, b),
              X_test  |-> SubSeq(Xw, b + 1, T),
              y_test  |-> SubSeq(yw, b + 1, T)]

RECURSIVE SumSeq(_)
\* sum of the numbers of the sequence q
SumSeq(q) == IF q = <<>> THEN 0 ELSE Head(q) + SumSeq(Tail(q))

\* all samples of all windows of P, concatenated
RECURSIVE Flatten(_)
Flatten(P) == IF P = <<>> THEN <<>> ELSE Head(P) \o Flatten(Tail(P))

\* the sample values of a window, in order
WinVals(win) == [j \in 1..Len(win) |-> win[j].v]

\* Scaler fit: the statistics of all samples of all windows of P jointly
\* (count, sum, sum of squares: mean = s1/n, variance = s2/n - (s1/n)^2).
FitScaler(P) ==
    LET vs == WinVals(Flatten(P))
    IN  [n  |-> Len(vs), s1 |-> SumSeq(vs),
         s2 |-> SumSeq([j \in 1..Len(vs) |-> vs[j] * vs[j]])]

NoScaler == [n |-> 0, s1 |-> 0, s2 |-> 0]

\* standard deviation 0 (or nothing to fit on): the scale is degenerate
Degenerate(sc) == sc.n * sc.s2 = sc.s1 * sc.s1

\* A transformed partition: its windows together with the parameters that
\* scaled them (the scaled value (v - mean) / std is kept symbolic).
Transform(sc, P) == [win |-> P, by |-> sc]

NoData == [X_train_sc |-> Transform(NoScaler, <<>>),
           y_train_sc |-> Transform(NoScaler, <<>>),
           X_test_sc  |-> Transform(NoScaler, <<>>),
           y_test_sc  |-> Transform(NoScaler, <<>>),
           X_val_sc   |-> Transform(NoScaler, <<>>),
           y_val_sc   |-> Transform(NoScaler, <<>>)]

\* Normalizer: fit one scaler on train X, one on train y, apply them to
\* every partition supplied.  It fails (ok = FALSE) on a constant training
\* channel.
normalise_dataset(Xtr, ytr, Xte, yte, Xva, yva) ==
    LET sx == FitScaler(Xtr)
        sy == FitScaler(ytr)
    IN  IF Degenerate(sx) \/ Degenerate(sy)
        THEN [ok |-> FALSE, data_dict |-> NoData,
              scaler_X |-> NoScaler, scaler_y |-> NoScaler]
        ELSE [ok |-> TRUE,
              data_dict |-> [X_train_sc |-> Transform(sx, Xtr),
                             y_train_sc |-> Transform(sy, ytr),
                             X_test_sc  |-> Transform(sx, Xte),
                             y_test_sc  |-> Transform(sy, yte),
                             X_val_sc   |-> Transform(sx, Xva),
                             y_val_sc   |-> Transform(sy, yva)],
              scaler_X |-> sx, scaler_y |-> sy]

\* ------------------------------------------------------- configurations
Scripts == {"p4581", "cascadia"}

\* model names a run may be started with; the last one matches no branch
ModelNames(s) == IF s = "p4581" THEN {"LSTM", "TCN", "GRU"}
                 ELSE {"Conv2DLSTM", "GRU"}

\* ExperimentConfig of train_p4581.py has no n_validation_windows
ValWindows(s) == IF s = "p4581" THEN {0} ELSE 0..MaxValWin

ExperimentConfig(s) ==
    [record : BOOLEAN, plot : BOOLEAN, optuna : BOOLEAN,
     smoothing_window : 1..MaxSmooth, downsampling_factor : 1..MaxDown,
     lookback : 1..MaxLookback, forecast : 1..MaxForecast,
     n_forecast_windows : 1..MaxTest, n_validation_windows : ValWindows(s),
     model : ModelNames(s)]

\* the raw series a run loads: a ramp or a constant signal
RawSeries(n) == {[i \in 1..n |-> i], [i \in 1..n |-> 1]}

\* the end-to-end scenario: 1000 samples, smoothing 100, downsampling 10,
\* lookback 20, forecast 5, 50 test windows, no validation
ScenarioArgs ==
    [record |-> TRUE, plot |-> TRUE, optuna |-> FALSE,
     smoothing_window |-> 100, downsampling_factor |-> 10,
     lookback |-> 20, forecast |-> 5,
     n_forecast_windows |-> 50, n_validation_windows |-> 0,
     model |-> "LSTM"]

\* a pulse every 150 samples
ScenarioRaw == [i \in 1..1000 |-> IF i % 150 = 0 THEN 1 ELSE 0]

Blank ==
    /\ pc = "smooth"
    /\ df_smoothed = <<>>
    /\ verdict = "none"
    /\ X = <<>> /\ y = <<>>
    /\ X_train = <<>> /\ y_train = <<>>
    /\ X_val = <<>> /\ y_val = <<>>
    /\ X_test = <<>> /\ y_test = <<>>
    /\ data_dict = NoData
    /\ scaler_X = NoScaler /\ scaler_y = NoScaler
    /\ model = "undefined"
    /\ results_dict = "undefined"
    /\ tmp_files = 0
    /\ cache_cleared = FALSE
    /\ gc_collected = FALSE
    /\ failed_in = "none"
    /\ log = <<>>

Init ==
    /\ script \in Scripts
    /\ args \in ExperimentConfig(script)
    /\ cli_args = args
    /\ \E n \in 1..MaxN : raw \in RawSeries(n)
    /\ Blank

InitE2E ==
    \/ Init
    \/ /\ script = "p4581"
       /\ args = ScenarioArgs
       /\ cli_args = args
       /\ raw = ScenarioRaw
       /\ Blank

\* ------------------------------------------------------------- actions
\* the verdicts the two-sample test may return on some pair of series
compare_feature_statistics == BOOLEAN

Rep(q, k) == [i \in 1..(k * Len(q)) |-> q[((i - 1) % Len(q)) + 1]]

data_vars == <<df_smoothed, X, y, X_train, y_train, X_val, y_val,
               X_test, y_test, data_dict, scaler_X, scaler_y>>
run_vars == <<script, cli_args, raw>>
train_vars == <<model, results_dict>>
device_vars == <<tmp_files, cache_cleared, gc_collected>>

\* an uncaught exception ends the script
Raise(stage, calls) ==
    /\ pc' = "failed"
    /\ failed_in' = stage
    /\ log' = log \o calls

\* the call with window and factor in each other's place
p4581_smooth_call_swapped ==
    moving_average_causal_filter(raw, args.downsampling_factor,
                                 args.smoothing_window)

\* the call moving_average_causal_filter(df_shear_stress, window, factor)
p4581_smooth_call ==
    moving_average_causal_filter(raw, args.smoothing_window,
                                 args.downsampling_factor)

\* train_p4581.py: smooth, then plot original against processed data
p4581_smooth ==
    /\ script = "p4581" /\ pc = "smooth"
    /\ df_smoothed' = p4581_smooth_call
    /\ log' = log \o <<"moving_average_causal_filter",
                       "plot_original_vs_processed_data">>
    /\ pc' = "gate"
    /\ UNCHANGED <<run_vars, args, verdict, X, y, X_train, y_train, X_val,
                   y_val, X_test, y_test, data_dict, scaler_X, scaler_y,
                   train_vars, device_vars, failed_in>>

\* the gate without its exit(): the mismatch is printed, the run goes on
p4581_gate_noexit ==
    /\ script = "p4581" /\ pc = "gate"
    /\ \E ok \in compare_feature_statistics :
         /\ verdict' = IF ok THEN "same" ELSE "different"
         /\ pc' = "window"
         /\ log' = IF ok THEN Append(log, "compare_feature_statistics")
                   ELSE log \o <<"compare_feature_statistics",
                                  "print_mismatch">>
    /\ UNCHANGED <<run_vars, args, data_vars, train_vars, device_vars,
                   failed_in>>

\* train_p4581.py: the statistics gate; a false verdict prints and exits
p4581_gate ==
    /\ script = "p4581" /\ pc = "gate"
    /\ \E ok \in compare_feature_statistics :
         /\ verdict' = IF ok THEN "same" ELSE "different"
         /\ IF ok
            THEN /\ pc' = "window"
                 /\ log' = Append(log, "compare_feature_statistics")
            ELSE /\ pc' = "exited"
                 /\ log' = log \o <<"compare_feature_statistics",
                                    "print_mismatch", "exit">>
    /\ UNCHANGED <<run_vars, args, data_vars, train_vars, device_vars,
                   failed_in>>

\* the call with lookback and forecast in each other's place
p4581_window_call_swapped ==
    create_dataset(df_smoothed, args.forecast, args.lookback)

\* the call create_dataset(df_smoothed, args.lookback, args.forecast)
p4581_window_call == create_dataset(df_smoothed, args.lookback, args.forecast)

\* train_p4581.py: X, y = create_dataset(...); n_samples = X.shape[0]
p4581_window ==
    /\ script = "p4581" /\ pc = "window"
    /\ IF ~p4581_window_call.ok
       THEN /\ Raise("create_dataset", <<"create_dataset">>)
            /\ UNCHANGED <<X, y>>
       ELSE /\ X' = p4581_window_call.X
            /\ y' = p4581_window_call.y
            /\ log' = Append(log, "create_dataset")
            /\ pc' = "split"
            /\ UNCHANGED failed_in
    /\ UNCHANGED <<run_vars, args, df_smoothed, verdict, X_train, y_train,
                   X_val, y_val, X_test, y_test, data_dict, scaler_X,
                   scaler_y, train_vars, device_vars>>

\* the call split_train_test_forecast_windows(X, y, forecast, n_forecast_windows)
p4581_split_call ==
    split_train_test_forecast_windows(X, y, args.forecast,
                                      args.n_forecast_windows, 0)

\* train_p4581.py: train/test split, no validation windows
p4581_split ==
    /\ script = "p4581" /\ pc = "split"
    /\ IF ~p4581_split_call.ok
       THEN /\ Raise("split_train_test_forecast_windows",
                     <<"split_train_test_forecast_windows">>)
            /\ UNCHANGED <<X_train, y_train, X_test, y_test>>
       ELSE LET r == p4581_split_call
            IN  /\ X_train' = r.X_train /\ y_train' = r.y_train
                /\ X_test' = r.X_test /\ y_test' = r.y_test
                /\ log' = Append(log, "split_train_test_forecast_windows")
                /\ pc' = "normalise"
                /\ UNCHANGED failed_in
    /\ UNCHANGED <<run_vars, args, df_smoothed, verdict, X, y, X_val, y_val,
                   data_dict, scaler_X, scaler_y, train_vars, device_vars>>

\* the call with the test arrays in the place of the train arrays
p4581_normalise_call_test_first(Xtr, ytr, Xte, yte) ==
    normalise_dataset(Xte, yte, Xtr, ytr, <<>>, <<>>)

\* the call normalise_dataset(X_train, y_train, X_test, y_test), as a
\* function of the four arrays the script passes
p4581_normalise_call(Xtr, ytr, Xte, yte) ==
    normalise_dataset(Xtr, ytr, Xte, yte, <<>>, <<>>)

\* train_p4581.py: normalise on the train set, plot an example sample
p4581_normalise ==
    /\ script = "p4581" /\ pc = "normalise"
    /\ IF ~p4581_normalise_call(X_train, y_train, X_test, y_test).ok
       THEN /\ Raise("normalise_dataset", <<"normalise_dataset">>)
            /\ UNCHANGED <<data_dict, scaler_X, scaler_y>>
       ELSE LET r == p4581_normalise_call(X_train, y_train, X_test, y_test)
            IN  /\ data_dict' = r.data_dict
                /\ scaler_X' = r.scaler_X
                /\ scaler_y' = r.scaler_y
                /\ log' = log \o <<"normalise_dataset", "plot_example_sample">>
                /\ pc' = "model"
                /\ UNCHANGED failed_in
    /\ UNCHANGED <<run_vars, args, df_smoothed, verdict, X, y, X_train,
                   y_train, X_val, y_val, X_test, y_test, train_vars,
                   device_vars>>

\* train_p4581.py: if model == "LSTM" ... elif model == "TCN" ...
p4581_model ==
    /\ script = "p4581" /\ pc = "model"
    /\ IF args.model \in {"LSTM", "TCN"}
       THEN /\ model' = args.model
            /\ log' = Append(log, "construct_model")
       ELSE UNCHANGED <<model, log>>
    /\ pc' = "train"
    /\ UNCHANGED <<run_vars, args, verdict, data_vars, results_dict,
                   device_vars, failed_in>>

\* train_p4581.py: results_dict = train_model(model, ...)
p4581_train ==
    /\ script = "p4581" /\ pc = "train"
    /\ IF model = "undefined"
       THEN /\ Raise("NameError", <<>>)
            /\ UNCHANGED results_dict
       ELSE /\ results_dict' = "trained"
            /\ log' = Append(log, "train_model")
            /\ pc' = "optuna"
            /\ UNCHANGED failed_in
    /\ UNCHANGED <<run_vars, args, verdict, data_vars, model, device_vars>>

\* train_p4581.py: if args.optuna: dump results, switch record and plot off
p4581_optuna ==
    /\ script = "p4581" /\ pc = "optuna"
    /\ IF args.optuna
       THEN /\ tmp_files' = tmp_files + 1
            /\ args' = [args EXCEPT !.record = FALSE, !.plot = FALSE]
            /\ log' = Append(log, "pickle.dump")
       ELSE UNCHANGED <<tmp_files, args, log>>
    /\ pc' = "record"
    /\ UNCHANGED <<run_vars, verdict, data_vars, train_vars, cache_cleared,
                   gc_collected, failed_in>>

\* train_p4581.py: if args.record: save_model, record_metrics
p4581_record ==
    /\ script = "p4581" /\ pc = "record"
    /\ IF args.record
       THEN log' = log \o <<"save_model", "record_metrics">>
       ELSE UNCHANGED log
    /\ pc' = "plot"
    /\ UNCHANGED <<run_vars, args, verdict, data_vars, train_vars,
                   device_vars, failed_in>>

\* train_p4581.py: if args.plot: result plots and 10 random test samples
p4581_plot ==
    /\ script = "p4581" /\ pc = "plot"
    /\ IF args.plot
       THEN log' = log \o <<"plot_all_data_results", "plot_all_data_results",
                            "plot_metric_results", "plot_metric_results">>
                       \o Rep(<<"savefig">>, 10)
       ELSE UNCHANGED log
    /\ pc' = "done"
    /\ UNCHANGED <<run_vars, args, verdict, data_vars, train_vars,
                   device_vars, failed_in>>

\* the call moving_average_causal_filter(ts_data, window, factor)
cascadia_smooth_call ==
    moving_average_causal_filter(raw, args.smoothing_window,
                                 args.downsampling_factor)

\* train_sptmp_cascadia.py: smooth; no statistics gate follows
cascadia_smooth ==
    /\ script = "cascadia" /\ pc = "smooth"
    /\ df_smoothed' = cascadia_smooth_call
    /\ log' = Append(log, "moving_average_causal_filter")
    /\ pc' = "window"
    /\ UNCHANGED <<run_vars, args, verdict, X, y, X_train, y_train, X_val,
                   y_val, X_test, y_test, data_dict, scaler_X, scaler_y,
                   train_vars, device_vars, failed_in>>

\* the call on the raw series instead of the smoothed one
cascadia_window_call_raw == create_dataset(raw, args.lookback, args.forecast)

\* the call create_dataset(df_smoothed, args.lookback, args.forecast)
cascadia_window_call ==
    create_dataset(df_smoothed, args.lookback, args.forecast)

\* train_sptmp_cascadia.py: X, y = create_dataset(df_smoothed, ...)
cascadia_window ==
    /\ script = "cascadia" /\ pc = "window"
    /\ IF ~cascadia_window_call.ok
       THEN /\ Raise("create_dataset", <<"create_dataset">>)
            /\ UNCHANGED <<X, y>>
       ELSE /\ X' = cascadia_window_call.X
            /\ y' = cascadia_window_call.y
            /\ log' = Append(log, "create_dataset")
            /\ pc' = "split"
            /\ UNCHANGED failed_in
    /\ UNCHANGED <<run_vars, args, df_smoothed, verdict, X_train, y_train,
                   X_val, y_val, X_test, y_test, data_dict, scaler_X,
                   scaler_y, train_vars, device_vars>>

\* the call with the two window counts in each other's place
cascadia_split_call_swapped ==
    split_train_test_forecast_windows(X, y, args.forecast,
                                      args.n_validation_windows,
                                      args.n_forecast_windows)

\* the call split_train_test_forecast_windows(X, y, forecast,
\* n_forecast_windows, n_validation_windows)
cascadia_split_call ==
    split_train_test_forecast_windows(X, y, args.forecast,
                                      args.n_forecast_windows,
                                      args.n_validation_windows)

\* train_sptmp_cascadia.py: train/validation/test split
cascadia_split ==
    /\ script = "cascadia" /\ pc = "split"
    /\ IF ~cascadia_split_call.ok
       THEN /\ Raise("split_train_test_forecast_windows",
                     <<"split_train_test_forecast_windows">>)
            /\ UNCHANGED <<X_train, y_train, X_val, y_val, X_test, y_test>>
       ELSE LET r == cascadia_split_call
            IN  /\ X_train' = r.X_train /\ y_train' = r.y_train
                /\ X_val' = r.X_val /\ y_val' = r.y_val
                /\ X_test' = r.X_test /\ y_test' = r.y_test
                /\ log' = Append(log, "split_train_test_forecast_windows")
                /\ pc' = "normalise"
                /\ UNCHANGED failed_in
    /\ UNCHANGED <<run_vars, args, df_smoothed, verdict, X, y, data_dict,
                   scaler_X, scaler_y, train_vars, device_vars>>

\* the call normalise_dataset(X_train, y_train, X_test, y_test, X_val,
\* y_val), as a function of the six arrays the script passes
cascadia_normalise_call(Xtr, ytr, Xte, yte, Xva, yva) ==
    normalise_dataset(Xtr, ytr, Xte, yte, Xva, yva)

\* train_sptmp_cascadia.py: normalise_dataset(train, test, val)
cascadia_normalise ==
    /\ script = "cascadia" /\ pc = "normalise"
    /\ IF ~cascadia_normalise_call(X_train, y_train, X_test, y_test,
                                   X_val, y_val).ok
       THEN /\ Raise("normalise_dataset", <<"normalise_dataset">>)
            /\ UNCHANGED <<data_dict, scaler_X, scaler_y>>
       ELSE LET r == cascadia_normalise_call(X_train, y_train, X_test, y_test,
                                             X_val, y_val)
            IN  /\ data_dict' = r.data_dict
                /\ scaler_X' = r.scaler_X
                /\ scaler_y' = r.scaler_y
                /\ log' = Append(log, "normalise_dataset")
                /\ pc' = "model"
                /\ UNCHANGED failed_in
    /\ UNCHANGED <<run_vars, args, df_smoothed, verdict, X, y, X_train,
                   y_train, X_val, y_val, X_test, y_test, train_vars,
                   device_vars>>

\* train_sptmp_cascadia.py: if args.model == "Conv2DLSTM": ...
cascadia_model ==
    /\ script = "cascadia" /\ pc = "model"
    /\ IF args.model = "Conv2DLSTM"
       THEN /\ model' = args.model
            /\ log' = Append(log, "construct_model")
       ELSE UNCHANGED <<model, log>>
    /\ pc' = "train"
    /\ UNCHANGED <<run_vars, args, verdict, data_vars, results_dict,
                   device_vars, failed_in>>

\* train_sptmp_cascadia.py: train_model, then eval_model_on_test_set
cascadia_train ==
    /\ script = "cascadia" /\ pc = "train"
    /\ IF model = "undefined"
       THEN /\ Raise("NameError", <<>>)
            /\ UNCHANGED results_dict
       ELSE /\ results_dict' = "trained"
            /\ log' = log \o <<"train_model", "eval_model_on_test_set">>
            /\ pc' = "optuna"
            /\ UNCHANGED failed_in
    /\ UNCHANGED <<run_vars, args, verdict, data_vars, model, device_vars>>

\* the branch without args.record = False
cascadia_optuna_keeps_record ==
    /\ script = "cascadia" /\ pc = "optuna"
    /\ IF args.optuna
       THEN /\ tmp_files' = tmp_files + 1
            /\ model' = "deleted"
            /\ cache_cleared' = TRUE
            /\ args' = [args EXCEPT !.plot = FALSE]
            /\ log' = log \o <<"pickle.dump", "del model",
                               "torch.cuda.empty_cache">>
       ELSE UNCHANGED <<tmp_files, model, cache_cleared, args, log>>
    /\ pc' = "record"
    /\ UNCHANGED <<run_vars, verdict, data_vars, results_dict, gc_collected,
                   failed_in>>

\* train_sptmp_cascadia.py: if args.optuna: dump results, del model,
\* torch.cuda.empty_cache(), the expression statement gc.collect (the
\* function is named, not called), switch record and plot off
cascadia_optuna ==
    /\ script = "cascadia" /\ pc = "optuna"
    /\ IF args.optuna
       THEN /\ tmp_files' = tmp_files + 1
            /\ model' = "deleted"
            /\ cache_cleared' = TRUE
            /\ args' = [args EXCEPT !.record = FALSE, !.plot = FALSE]
            /\ log' = log \o <<"pickle.dump", "del model",
                               "torch.cuda.empty_cache">>
       ELSE UNCHANGED <<tmp_files, model, cache_cleared, args, log>>
    /\ pc' = "record"
    /\ UNCHANGED <<run_vars, verdict, data_vars, results_dict, gc_collected,
                   failed_in>>

\* train_sptmp_cascadia.py: if args.record: save_model, record_metrics
cascadia_record ==
    /\ script = "cascadia" /\ pc = "record"
    /\ IF args.record
       THEN IF model = "deleted"
            THEN Raise("NameError", <<>>)
            ELSE /\ log' = log \o <<"save_model", "record_metrics">>
                 /\ pc' = "plot"
                 /\ UNCHANGED failed_in
       ELSE /\ pc' = "plot"
            /\ UNCHANGED <<log, failed_in>>
    /\ UNCHANGED <<run_vars, args, verdict, data_vars, train_vars,
                   device_vars>>

\* train_sptmp_cascadia.py: if args.plot: four plots for each of 6 segments
cascadia_plot ==
    /\ script = "cascadia" /\ pc = "plot"
    /\ IF args.plot
       THEN log' = log \o Rep(<<"plot_all_data_results",
                                "plot_all_data_results",
                                "plot_metric_results",
                                "plot_metric_results">>, 6)
       ELSE UNCHANGED log
    /\ pc' = "done"
    /\ UNCHANGED <<run_vars, args, verdict, data_vars, train_vars,
                   device_vars, failed_in>>

Next ==
    \/ p4581_smooth \/ p4581_gate \/ p4581_window \/ p4581_split
    \/ p4581_normalise \/ p4581_model \/ p4581_train \/ p4581_optuna
    \/ p4581_record \/ p4581_plot
    \/ cascadia_smooth \/ cascadia_window \/ cascadia_split
    \/ cascadia_normalise \/ cascadia_model \/ cascadia_train
    \/ cascadia_optuna \/ cascadia_record \/ cascadia_plot

Spec == Init /\ [][Next]_vars

SpecE2E == InitE2E /\ [][Next]_vars

\* ---------------------------------------------------------- properties
Has(c) == \E i \in DOMAIN log : log[i] = c

\* create_dataset, the split, the normalisation has been called and returned
WindowDone == Has("create_dataset") /\ failed_in # "create_dataset"
SplitDone == /\ Has("split_train_test_forecast_windows")
             /\ failed_in # "split_train_test_forecast_windows"
NormDone == Has("normalise_dataset") /\ failed_in # "normalise_dataset"

\* index i of a window of X: the position of its first sample
Start(win) == win[1].t

\* the window indices of a partition, and the sample positions a partition
\* (its X and y windows) covers
Idx(P) == {Start(P[k]) : k \in DOMAIN P}
Cover(PX, Py) ==
    UNION {{PX[k][j].t : j \in DOMAIN PX[k]} : k \in DOMAIN PX}
    \cup UNION {{Py[k][j].t : j \in DOMAIN Py[k]} : k \in DOMAIN Py}

\* C3: for a series of length N >= L + F, create_dataset returns exactly
\* N - L - F + 1 window pairs in increasing order of start index i, X[i]
\* being samples [i, i+L) and y[i] samples [i+L, i+L+F): y[i] starts right
\* after the last sample of X[i], without gap or overlap.
C3_WindowPairs ==
    LET N == Len(df_smoothed)
        L == args.lookback
        F == args.forecast
    IN  (Has("create_dataset") /\ N >= L + F) =>
          /\ WindowDone
          /\ Len(X) = N - L - F + 1
          /\ Len(y) = Len(X)
          /\ \A k \in 1..Len(X) :
               /\ Len(X[k]) = L /\ Len(y[k]) = F
               /\ \A j \in 1..L : /\ X[k][j].t = (k - 1) + (j - 1)
                                  /\ X[k][j].v = df_smoothed[X[k][j].t + 1]
               /\ \A j \in 1..F : /\ y[k][j].t = (k - 1) + L + (j - 1)
                                  /\ y[k][j].v = df_smoothed[y[k][j].t + 1]
               /\ y[k][1].t = X[k][L].t + 1
               /\ {X[k][j].t : j \in 1..L} \cap {y[k][j].t : j \in 1..F} = {}

C3_Witness ==
    /\ WindowDone /\ Len(X) >= 3
    /\ args.lookback # args.forecast

\* C1: after a split with n_test + n_val <= T the partition sizes sum to
\* T, test is the last n_test windows, validation the n_val windows right
\* before them, train all windows before those; the index sets are pairwise
\* disjoint and every train index < every validation index < every test
\* index.
C1_SplitPartitions ==
    LET T   == Len(X)
        nt  == args.n_forecast_windows
        nv  == args.n_validation_windows
    IN  (Has("split_train_test_forecast_windows") /\ nt + nv <= T) =>
          /\ SplitDone
          /\ Len(X_train) + Len(X_val) + Len(X_test) = T
          /\ Len(y_train) = Len(X_train)
          /\ Len(y_val) = Len(X_val)
          /\ Len(y_test) = Len(X_test)
          /\ \A k \in 1..Len(X_test) :
               X_test[k] = X[T - nt + k] /\ y_test[k] = y[T - nt + k]
          /\ \A k \in 1..Len(X_val) :
               X_val[k] = X[T - nt - nv + k] /\ y_val[k] = y[T - nt - nv + k]
          /\ \A k \in 1..Len(X_train) :
               X_train[k] = X[k] /\ y_train[k] = y[k]
          /\ Len(X_test) = nt /\ Len(X_val) = nv
          /\ Idx(X_train) \cap Idx(X_val) = {}
          /\ Idx(X_train) \cap Idx(X_test) = {}
          /\ Idx(X_val) \cap Idx(X_test) = {}
          /\ \A a \in Idx(X_train) : \A b \in Idx(X_val) \cup Idx(X_test) :
               a < b
          /\ \A a \in Idx(X_val) : \A b \in Idx(X_test) : a < b

C1_Witness ==
    /\ SplitDone
    /\ Len(X_train) >= 2 /\ Len(X_val) >= 1 /\ Len(X_test) >= 2

\* C2: no sample position of the smoothed series is covered by windows (X
\* or y) of more than one partition.
C2_NoSharedSamples ==
    SplitDone =>
      /\ Cover(X_train, y_train) \cap Cover(X_val, y_val) = {}
      /\ Cover(X_train, y_train) \cap Cover(X_test, y_test) = {}
      /\ Cover(X_val, y_val) \cap Cover(X_test, y_test) = {}

\* the run is the end-to-end scenario
Scenario == cli_args = ScenarioArgs /\ raw = ScenarioRaw

\* what the scenario yields: 91 smoothed samples, 67 window pairs, 50 test
\* and 17 train windows
ScenarioSizes ==
    Scenario =>
      /\ Has("moving_average_causal_filter") => Len(df_smoothed) = 91
      /\ Has("create_dataset") =>
           WindowDone /\ Len(X) = 67 /\ Len(y) = 67
      /\ Has("split_train_test_forecast_windows") =>
           /\ SplitDone
           /\ Len(X_test) = 50 /\ Len(y_test) = 50
           /\ Len(X_train) = 17 /\ Len(y_train) = 17
           /\ Len(X_val) = 0

\* the samples left after the first w-1 (all of them, if there are fewer)
\* are dropped
Undropped ==
    LET w == cli_args.smoothing_window
    IN  IF Len(raw) >= w - 1 THEN Len(raw) - (w - 1) ELSE 0

Stage(c) ==
    CASE c \in {"moving_average_causal_filter",
                "plot_original_vs_processed_data"} -> 1
      [] c \in {"compare_feature_statistics", "print_mismatch", "exit"} -> 2
      [] c = "create_dataset" -> 3
      [] c = "split_train_test_forecast_windows" -> 4
      [] c \in {"normalise_dataset", "plot_example_sample"} -> 5
      [] c \in {"construct_model", "train_model",
                "eval_model_on_test_set"} -> 6
      [] OTHER -> 7

\* C5: in both scripts the stages run in the order CausalSmoother, gate,
\* WindowGenerator, Splitter, Normalizer, TrainingLoop, Reporter, none
\* before the one preceding it has run, and create_dataset is never called
\* without compare_feature_statistics having been evaluated.
C5_StageOrder ==
    /\ \A i, j \in DOMAIN log : i < j => Stage(log[i]) <= Stage(log[j])
    /\ \A j \in DOMAIN log :
         Stage(log[j]) > 1 =>
           \E i \in 1..(j - 1) : Stage(log[i]) = Stage(log[j]) - 1
    /\ Has("create_dataset") => Has("compare_feature_statistics")

\* calls of the stages after the gate
AfterGateCalls ==
    {"create_dataset", "split_train_test_forecast_windows",
     "normalise_dataset", "plot_example_sample", "construct_model",
     "train_model", "eval_model_on_test_set", "pickle.dump", "save_model",
     "record_metrics", "plot_all_data_results", "plot_metric_results",
     "savefig"}

\* C6: on a false verdict the run prints the mismatch and exits normally,
\* and nothing of window generation, split, normalisation, model
\* construction, training, serialisation, persistence or result plotting
\* is ever executed; on a true verdict the run goes on to create_dataset.
C6_GateAbort ==
    /\ verdict = "different" =>
         /\ pc = "exited" /\ failed_in = "none"
         /\ log = <<"moving_average_causal_filter",
                    "plot_original_vs_processed_data",
                    "compare_feature_statistics", "print_mismatch", "exit">>
         /\ \A c \in AfterGateCalls : ~Has(c)
         /\ X = <<>> /\ X_train = <<>> /\ X_test = <<>>
         /\ data_dict = NoData /\ model = "undefined"
         /\ results_dict = "undefined" /\ tmp_files = 0
    /\ verdict = "same" => pc = "window" \/ Has("create_dataset")
    /\ pc = "exited" => verdict = "different"

C6_Witness == verdict = "different" /\ pc = "exited"

\* the smoothed series is too short for one window pair, or the requested
\* test (+ validation) windows outnumber the windows
Insufficient ==
    LET T == Len(df_smoothed) - args.lookback - args.forecast + 1
    IN  /\ Has("moving_average_causal_filter")
        /\ \/ Len(df_smoothed) < args.lookback + args.forecast
           \/ args.n_forecast_windows + args.n_validation_windows > T

Terminal == pc \in {"done", "failed", "exited"}

PlotCalls == {"plot_original_vs_processed_data", "plot_example_sample",
              "plot_all_data_results", "plot_metric_results", "savefig"}

\* C7 as stated: with insufficient data the run fails in create_dataset or
\* in the split, no model is constructed, train_model is never called and
\* nothing is saved or plotted.
C7_FailFast ==
    Insufficient =>
      /\ Terminal =>
           /\ pc = "failed"
           /\ failed_in \in {"create_dataset",
                             "split_train_test_forecast_windows"}
      /\ model = "undefined" /\ ~Has("construct_model")
      /\ ~Has("train_model")
      /\ ~Has("pickle.dump") /\ ~Has("save_model") /\ ~Has("record_metrics")
      /\ \A c \in PlotCalls : ~Has(c)

\* C7 amended: with insufficient data a run that passes the statistics
\* gate fails in create_dataset or in the split; no model is constructed,
\* train_model is never called, nothing is saved, and nothing is plotted
\* except train_p4581's plot of original against processed data, drawn
\* before the gate.
C7_FailFastAfterGate ==
    Insufficient =>
      /\ Terminal =>
           \/ pc = "exited" /\ verdict = "different"
           \/ /\ pc = "failed"
              /\ failed_in \in {"create_dataset",
                                "split_train_test_forecast_windows"}
      /\ pc \in {"gate", "window", "split", "failed", "exited"}
      /\ model = "undefined" /\ ~Has("construct_model")
      /\ ~Has("train_model")
      /\ ~Has("pickle.dump") /\ ~Has("save_model") /\ ~Has("record_metrics")
      /\ \A c \in PlotCalls \ {"plot_original_vs_processed_data"} : ~Has(c)
      /\ Has("plot_original_vs_processed_data") =>
           script = "p4581" /\ log[2] = "plot_original_vs_processed_data"

C7_Witness ==
    /\ Insufficient /\ pc = "failed"
    /\ failed_in = "split_train_test_forecast_windows"

\* the windows of P with every sample value replaced by q's value at the
\* sample's position
Perturb(P, q) ==
    [k \in DOMAIN P |->
       [j \in DOMAIN P[k] |-> [t |-> P[k][j].t, v |-> q[P[k][j].t + 1]]]]

\* other data: every position takes a low or a high value
Perturbations == [1..Len(df_smoothed) -> {0, 50}]

\* the script's normalise_dataset call on other validation and test data
NormaliseCallOn(Xte, yte, Xva, yva) ==
    IF script = "p4581"
    THEN p4581_normalise_call(X_train, y_train, Xte, yte)
    ELSE cascadia_normalise_call(X_train, y_train, Xte, yte, Xva, yva)

First(c) == CHOOSE i \in DOMAIN log : log[i] = c /\ \A j \in 1..(i - 1) : log[j] # c

Count(c) == Cardinality({i \in DOMAIN log : log[i] = c})

\* C8: normalise_dataset runs only after the split and fits on the split's
\* train output; a run with the same train partition and any other
\* validation and test data fits the same X-scaler and y-scaler; the fitted
\* parameters are the ones applied to every partition supplied.
C8_ScalerTrainOnly ==
    NormDone =>
      /\ Has("split_train_test_forecast_windows")
      /\ First("split_train_test_forecast_windows") < First("normalise_dataset")
      /\ data_dict.X_train_sc.win = X_train
      /\ data_dict.y_train_sc.win = y_train
      /\ data_dict.X_test_sc.win = X_test
      /\ data_dict.y_test_sc.win = y_test
      /\ data_dict.X_val_sc.win = X_val
      /\ data_dict.y_val_sc.win = y_val
      /\ \A q \in Perturbations :
           LET r == NormaliseCallOn(Perturb(X_test, q), Perturb(y_test, q),
                                    Perturb(X_val, q), Perturb(y_val, q))
           IN  r.ok /\ r.scaler_X = scaler_X /\ r.scaler_y = scaler_y
      /\ \A k \in {"X_train_sc", "X_test_sc", "X_val_sc"} :
           data_dict[k].by = scaler_X
      /\ \A k \in {"y_train_sc", "y_test_sc", "y_val_sc"} :
           data_dict[k].by = scaler_y

C8_Witness ==
    /\ NormDone /\ Len(X_val) >= 1 /\ Len(X_test) >= 1
    /\ scaler_X # scaler_y

\* C9: after a trial (optuna = TRUE) whose results bundle has been
\* serialised, the device cache has been cleared and a garbage collection
\* has been performed before the run ends, in both scripts.
C9_DeviceMemoryReleased ==
    (pc = "done" /\ cli_args.optuna /\ tmp_files >= 1) =>
      cache_cleared /\ gc_collected

ResultPlotted == Has("plot_all_data_results") /\ Has("plot_metric_results")

====
